---- MODULE Spec2Model ----
(***************************************************************************)
(* The three-store orchestration of src/src/handlers.rs: insert_link,      *)
(* search_links and delete_link over the metadata store (d1), the blob     *)
(* store (bucket) and the vector store.  Every `.await` of a handler is    *)
(* one action; the synchronous code after an await belongs to the action   *)
(* of that await.  Every external call may answer with an error.           *)
(***************************************************************************)
EXTENDS Integers, Sequences, FiniteSets, TLC

VARIABLES
    meta,       \* metadata store: set of DocInfo rows
    blobs,      \* blob store: set of [path, content]
    vectors,    \* vector store: set of [id, document_id, chunk_id, embedding]
    nextId,     \* the next value Uuid::new_v4 hands out
    vresult,    \* what the vector index answers to the query of search_links
    proc        \* per request flow: the handler's locals and its position

vars == <<meta, blobs, vectors, nextId, vresult, proc>>

(* ------------------------------ bounds -------------------------------- *)

MaxIds == 2         \* ingestions that pass the dedup check
MaxChunks == 2      \* chunks the summarizer returns for one document
MaxHits == 3        \* hits of a narrow query result
MaxMissing == 2     \* documents 1..MaxMissing may lack a metadata row

Procs == {1, 2}
Urls == {"https://a", "https://b"}
\* similarity scores a hit may carry: finite f32 values, for which partial_cmp
\* is a total order (a NaN score is not drawn)
Scores == {-1, 0, 1, 2}
\* the vectors a narrow query result draws from: <<document_id, chunk_id>>
NarrowVectors == {<<1, 0>>, <<1, 1>>, <<1, 2>>, <<2, 0>>}

(* ------------------------- program constants -------------------------- *)

QueryK == 20                  \* query_vectors_with_scores(&env, query, 20)
ResultCap == 5                \* sorted_docs.iter().take(5)

(* ------------------------------ values -------------------------------- *)

NoRow ==
    [id |-> 0, url |-> "", created_at |-> 0, bucket_path |-> <<>>,
     content_type |-> "", size |-> 0, title |-> <<>>, summary |-> <<>>,
     chunk_count |-> 0]

Ok(v) == [tag |-> "Ok", val |-> v, err |-> "none"]

Err(e) == [tag |-> "Err", val |-> NoRow, err |-> e]

NoResult == [tag |-> "none", val |-> NoRow, err |-> "none"]

Snapshot == [meta |-> meta, blobs |-> blobs, vectors |-> vectors]

Idle ==
    [op |-> "none", pc |-> "idle", url |-> "", lookup |-> "none",
     link_id |-> 0, content |-> <<>>, content_type |-> "",
     bucket_path |-> <<>>, chunks |-> <<>>, row |-> NoRow,
     embeddings |-> <<>>, i |-> 0, link_info |-> NoRow,
     doc_matches |-> <<>>, doc_best_scores |-> <<>>, sorted_docs |-> <<>>,
     return_val |-> <<>>, answers |-> <<>>,
     result |-> NoResult, log |-> <<>>,
     pre |-> [meta |-> {}, blobs |-> {}, vectors |-> {}]]

(* ------------------- external collaborators (not in src/) ------------- *)

\* d1::find_link_by_url: a row of that url, not-found, or a store failure.
find_link_by_url(m, url) ==
    {Ok(r) : r \in {x \in m : x.url = url}}
        \cup (IF \E x \in m : x.url = url THEN {} ELSE {Err("NotFound")})
        \cup {Err("StoreFailure")}

\* d1::save_link_to_db: the row is added, or the store rejects the write.
save_link_to_db(m, row) ==
    {[res |-> Ok(row), store |-> m \cup {row}],
     [res |-> Err("StoreFailure"), store |-> m]}

\* d1::get_link_by_id: Ok(Some(row)), Ok(None) or a store failure.
get_link_by_id(m, id) ==
    {[tag |-> "Some", val |-> r] : r \in {x \in m : x.id = id}}
        \cup (IF \E x \in m : x.id = id THEN {} ELSE {[tag |-> "None", val |-> NoRow]})
        \cup {[tag |-> "Err", val |-> NoRow]}

\* d1::delete_link_by_url: deletes and returns one row of that url.
delete_link_by_url(m, url) ==
    {[res |-> Ok(r), store |-> m \ {r}] : r \in {x \in m : x.url = url}}
        \cup (IF \E x \in m : x.url = url THEN {}
              ELSE {[res |-> Err("NotFound"), store |-> m]})
        \cup {[res |-> Err("StoreFailure"), store |-> m]}

\* d1::save_to_bucket: put of the bytes at the path (replacing what is there).
save_to_bucket(b, path, content) ==
    {[res |-> Ok(NoRow),
      store |-> {x \in b : x.path # path} \cup {[path |-> path, content |-> content]}],
     [res |-> Err("StoreFailure"), store |-> b]}

\* d1::delete_from_bucket
delete_from_bucket(b, path) ==
    {[res |-> Ok(NoRow), store |-> {x \in b : x.path # path}],
     [res |-> Err("StoreFailure"), store |-> b]}

\* vector::insert_vector: insert by id (an entry of the same id is replaced).
insert_vector(v, vector_id, vector_metadata, embedding) ==
    {[res |-> Ok(NoRow),
      store |-> {x \in v : x.id # vector_id}
                  \cup {[id |-> vector_id,
                         document_id |-> vector_metadata.document_id,
                         chunk_id |-> vector_metadata.chunk_id,
                         embedding |-> embedding]}],
     [res |-> Err("StoreFailure"), store |-> v]}

\* vector::delete_vectors_by_prefix: deletes ids "{id}-0" .. "{id}-{count-1}".
delete_vectors_by_prefix(v, id, count) ==
    {[res |-> Ok(NoRow),
      store |-> {x \in v : x.id \notin {<<id, k>> : k \in 0..(count - 1)}}],
     [res |-> Err("StoreFailure"), store |-> v]}

\* utils::fetch_content: the bytes and content type the url serves.
ContentTypeOf(url) == IF url = "https://a" THEN "text/html" ELSE "application/pdf"

fetch_content(url) ==
    {[tag |-> "Ok", content |-> <<"bytes", url>>, content_type |-> ContentTypeOf(url)],
     [tag |-> "Err", content |-> <<>>, content_type |-> ""]}

\* utils::get_extension_from_content_type
get_extension_from_content_type(content_type) ==
    IF content_type = "text/html" THEN "html"
    ELSE IF content_type = "application/pdf" THEN "pdf"
    ELSE "bin"

\* utils::chunk_and_summary_link: title, summary and 0..MaxChunks chunk texts.
chunk_and_summary_link(content) ==
    {[tag |-> "Ok", title |-> <<"title", content>>, summary |-> <<"summary", content>>,
      chunks |-> [k \in 1..n |-> <<"chunk", content, k - 1>>]] : n \in 0..MaxChunks}
        \cup {[tag |-> "Err", title |-> <<>>, summary |-> <<>>, chunks |-> <<>>]}

\* vector::generate_embeddings
generate_embeddings(chunk_text) ==
    {[tag |-> "Ok", embedding |-> <<"embedding", chunk_text>>],
     [tag |-> "Err", embedding |-> <<>>]}

(* ------------------------------ insert_link --------------------------- *)

\* mutant: the row found is not returned and the url is ingested again
DedupHitNever(found) == FALSE

\* `if let Ok(existing_link) = d1::find_link_by_url(..)`
DedupHit(found) == found.tag = "Ok"

\* mutant: the path is derived from the content type alone
get_bucket_path_of_type(content_type, link_id) ==
    <<"content", 0, get_extension_from_content_type(content_type)>>

\* get_bucket_path: format!("content/{}.{}", link_id, extension)
get_bucket_path(content_type, link_id) ==
    <<"content", link_id, get_extension_from_content_type(content_type)>>

\* mutant: vector ids counted from 1
VectorIdFromOne(link_id, i) == <<link_id, i + 1>>

\* format!("{}-{}", link_id, i)
VectorId(link_id, i) == <<link_id, i>>

\* the DocInfo built from the fetched and processed data; the clock read at
\* line 22 is abstracted to the sequence number of the ingestion
MakeRow(link_id, url, current_time, bucket_path, content_type, content, processed) ==
    [id |-> link_id, url |-> url, created_at |-> current_time,
     bucket_path |-> bucket_path, content_type |-> content_type,
     size |-> Len(content), title |-> processed.title,
     summary |-> processed.summary, chunk_count |-> Len(processed.chunks)]

Finish(p, res, entry) ==
    [proc EXCEPT ![p] = [@ EXCEPT !.pc = "done", !.result = res,
                                  !.log = Append(@, entry)]]

\* the dedup lookup; on a row found the call returns it (`seen` is what is
\* remembered of the stores as they were at the call)
InsertFindFrom(p, url, seen) ==
    /\ proc[p].pc = "idle"
    /\ \E found \in find_link_by_url(meta, url) :
        LET started == [Idle EXCEPT !.op = "insert", !.url = url, !.pre = seen,
                                    !.log = <<"find_link_by_url">>,
                                    !.lookup = IF found.tag = "Ok" THEN "found"
                                               ELSE found.err]
        IN  IF DedupHit(found)
            THEN /\ proc' = [proc EXCEPT ![p] =
                        [started EXCEPT !.pc = "done", !.result = Ok(found.val)]]
                 /\ UNCHANGED nextId
            ELSE /\ nextId <= MaxIds
                 /\ proc' = [proc EXCEPT ![p] =
                        [started EXCEPT !.pc = "fetch", !.link_id = nextId]]
                 /\ nextId' = nextId + 1
    /\ UNCHANGED <<meta, blobs, vectors, vresult>>

InsertFind(p, url) == InsertFindFrom(p, url, Snapshot)

InsertFetch(p) ==
    /\ proc[p].op = "insert" /\ proc[p].pc = "fetch"
    /\ \E got \in fetch_content(proc[p].url) :
        IF got.tag = "Ok"
        THEN proc' = [proc EXCEPT ![p] =
                [@ EXCEPT !.pc = "summarize",
                          !.content = got.content,
                          !.content_type = got.content_type,
                          !.bucket_path = get_bucket_path(got.content_type, proc[p].link_id),
                          !.log = Append(@, "fetch_content")]]
        ELSE proc' = Finish(p, Err("FetchFailure"), "fetch_content")
    /\ UNCHANGED <<meta, blobs, vectors, nextId, vresult>>

InsertSummarize(p) ==
    /\ proc[p].op = "insert" /\ proc[p].pc = "summarize"
    /\ \E processed \in chunk_and_summary_link(proc[p].content) :
        IF processed.tag = "Ok"
        THEN proc' = [proc EXCEPT ![p] =
                [@ EXCEPT !.pc = IF Len(processed.chunks) = 0 THEN "save_to_bucket"
                                 ELSE "embed",
                          !.chunks = processed.chunks,
                          !.row = MakeRow(proc[p].link_id, proc[p].url, proc[p].link_id,
                                          proc[p].bucket_path, proc[p].content_type,
                                          proc[p].content, processed),
                          !.embeddings = <<>>,
                          !.i = 0,
                          !.log = Append(@, "chunk_and_summary_link")]]
        ELSE proc' = Finish(p, Err("ProcessingFailure"), "chunk_and_summary_link")
    /\ UNCHANGED <<meta, blobs, vectors, nextId, vresult>>

\* mutant: a new embedding is put in front of the collected ones
InsertEmbedPrepending(p) ==
    /\ proc[p].op = "insert" /\ proc[p].pc = "embed"
    /\ \E e \in generate_embeddings(proc[p].chunks[proc[p].i + 1]) :
        IF e.tag = "Ok"
        THEN proc' = [proc EXCEPT ![p] =
                [@ EXCEPT !.embeddings = <<e.embedding>> \o @,
                          !.i = IF @ + 1 = Len(proc[p].chunks) THEN 0 ELSE @ + 1,
                          !.pc = IF proc[p].i + 1 = Len(proc[p].chunks)
                                 THEN "insert_vector" ELSE "embed",
                          !.log = Append(@, "generate_embeddings")]]
        ELSE proc' = Finish(p, Err("EmbeddingFailure"), "generate_embeddings")
    /\ UNCHANGED <<meta, blobs, vectors, nextId, vresult>>

\* mutant: each chunk's vector is inserted as soon as it is embedded
InsertEmbedInterleaved(p) ==
    /\ proc[p].op = "insert" /\ proc[p].pc = "embed"
    /\ LET i == proc[p].i
           link_id == proc[p].link_id
       IN \E e \in generate_embeddings(proc[p].chunks[i + 1]) :
            IF e.tag = "Ok"
            THEN \E out \in insert_vector(vectors, <<link_id, i>>,
                                          [document_id |-> link_id, chunk_id |-> i],
                                          e.embedding) :
                    /\ vectors' = out.store
                    /\ IF out.res.tag = "Ok"
                       THEN proc' = [proc EXCEPT ![p] =
                               [@ EXCEPT !.embeddings = Append(@, e.embedding),
                                         !.i = i + 1,
                                         !.pc = IF i + 1 = Len(proc[p].chunks)
                                                THEN "save_to_bucket" ELSE "embed",
                                         !.log = @ \o <<"generate_embeddings",
                                                        "insert_vector">>]]
                       ELSE proc' = Finish(p, out.res, "insert_vector")
            ELSE /\ vectors' = vectors
                 /\ proc' = Finish(p, Err("EmbeddingFailure"), "generate_embeddings")
    /\ UNCHANGED <<meta, blobs, nextId, vresult>>

\* one iteration of `for chunk_text in processed_data.chunks.iter()`
InsertEmbed(p) ==
    /\ proc[p].op = "insert" /\ proc[p].pc = "embed"
    /\ \E e \in generate_embeddings(proc[p].chunks[proc[p].i + 1]) :
        IF e.tag = "Ok"
        THEN proc' = [proc EXCEPT ![p] =
                [@ EXCEPT !.embeddings = Append(@, e.embedding),
                          !.i = IF @ + 1 = Len(proc[p].chunks) THEN 0 ELSE @ + 1,
                          !.pc = IF proc[p].i + 1 = Len(proc[p].chunks)
                                 THEN "insert_vector" ELSE "embed",
                          !.log = Append(@, "generate_embeddings")]]
        ELSE proc' = Finish(p, Err("EmbeddingFailure"), "generate_embeddings")
    /\ UNCHANGED <<meta, blobs, vectors, nextId, vresult>>

\* one iteration of `for (i, embedding) in embeddings.into_iter().enumerate()`
InsertVector(p) ==
    /\ proc[p].op = "insert" /\ proc[p].pc = "insert_vector"
    /\ LET i == proc[p].i
           link_id == proc[p].link_id
       IN \E out \in insert_vector(vectors, VectorId(link_id, i),
                                   [document_id |-> link_id, chunk_id |-> i],
                                   proc[p].embeddings[i + 1]) :
            /\ vectors' = out.store
            /\ IF out.res.tag = "Ok"
               THEN proc' = [proc EXCEPT ![p] =
                       [@ EXCEPT !.i = i + 1,
                                 !.pc = IF i + 1 = Len(proc[p].embeddings)
                                        THEN "save_to_bucket" ELSE "insert_vector",
                                 !.log = Append(@, "insert_vector")]]
               ELSE proc' = Finish(p, out.res, "insert_vector")
    /\ UNCHANGED <<meta, blobs, nextId, vresult>>

\* mutant: the outcome of the blob put is ignored
InsertSaveBucketIgnoringFailure(p) ==
    /\ proc[p].op = "insert" /\ proc[p].pc = "save_to_bucket"
    /\ \E out \in save_to_bucket(blobs, proc[p].bucket_path, proc[p].content) :
        /\ blobs' = out.store
        /\ proc' = [proc EXCEPT ![p] =
                [@ EXCEPT !.pc = "save_link_to_db",
                          !.log = Append(@, "save_to_bucket")]]
    /\ UNCHANGED <<meta, vectors, nextId, vresult>>

InsertSaveBucket(p) ==
    /\ proc[p].op = "insert" /\ proc[p].pc = "save_to_bucket"
    /\ \E out \in save_to_bucket(blobs, proc[p].bucket_path, proc[p].content) :
        /\ blobs' = out.store
        /\ IF out.res.tag = "Ok"
           THEN proc' = [proc EXCEPT ![p] =
                   [@ EXCEPT !.pc = "save_link_to_db",
                             !.log = Append(@, "save_to_bucket")]]
           ELSE proc' = Finish(p, out.res, "save_to_bucket")
    /\ UNCHANGED <<meta, vectors, nextId, vresult>>

\* mutant: a failed metadata save takes the blob back out of the bucket
InsertSaveDbCompensating(p) ==
    /\ proc[p].op = "insert" /\ proc[p].pc = "save_link_to_db"
    /\ \E out \in save_link_to_db(meta, proc[p].row) :
        /\ meta' = out.store
        /\ blobs' = IF out.res.tag = "Ok" THEN blobs
                    ELSE {x \in blobs : x.path # proc[p].bucket_path}
        /\ proc' = Finish(p, out.res, "save_link_to_db")
    /\ UNCHANGED <<vectors, nextId, vresult>>

InsertSaveDb(p) ==
    /\ proc[p].op = "insert" /\ proc[p].pc = "save_link_to_db"
    /\ \E out \in save_link_to_db(meta, proc[p].row) :
        /\ meta' = out.store
        /\ proc' = Finish(p, out.res, "save_link_to_db")
    /\ UNCHANGED <<blobs, vectors, nextId, vresult>>

(* ------------------------------ delete_link --------------------------- *)

\* mutant: the error of the delete-by-url is dropped (unwrap_or_default)
DeleteLookupAbortsNever(res) == FALSE

\* the `?` of `d1::delete_link_by_url(env, link).await?`
DeleteLookupAborts(res) == res.tag = "Err"

DeleteRecordFrom(p, url, seen) ==
    /\ proc[p].pc = "idle"
    /\ \E out \in delete_link_by_url(meta, url) :
        LET started == [Idle EXCEPT !.op = "delete", !.url = url, !.pre = seen,
                                    !.log = <<"delete_link_by_url">>,
                                    !.lookup = IF out.res.tag = "Ok" THEN "found"
                                               ELSE out.res.err]
        IN  /\ meta' = out.store
            /\ IF DeleteLookupAborts(out.res)
               THEN proc' = [proc EXCEPT ![p] =
                       [started EXCEPT !.pc = "done", !.result = out.res]]
               ELSE proc' = [proc EXCEPT ![p] =
                       [started EXCEPT !.pc = "delete_from_bucket",
                                       !.link_info = out.res.val]]
    /\ UNCHANGED <<blobs, vectors, nextId, vresult>>

DeleteRecord(p, url) == DeleteRecordFrom(p, url, Snapshot)

\* mutant: the blob delete is left out
DeleteBucketSkipped(p) ==
    /\ proc[p].op = "delete" /\ proc[p].pc = "delete_from_bucket"
    /\ proc' = [proc EXCEPT ![p] = [@ EXCEPT !.pc = "delete_vectors_by_prefix"]]
    /\ UNCHANGED <<meta, blobs, vectors, nextId, vresult>>

DeleteBucket(p) ==
    /\ proc[p].op = "delete" /\ proc[p].pc = "delete_from_bucket"
    /\ \E out \in delete_from_bucket(blobs, proc[p].link_info.bucket_path) :
        /\ blobs' = out.store
        /\ IF out.res.tag = "Ok"
           THEN proc' = [proc EXCEPT ![p] =
                   [@ EXCEPT !.pc = "delete_vectors_by_prefix",
                             !.log = Append(@, "delete_from_bucket")]]
           ELSE proc' = Finish(p, out.res, "delete_from_bucket")
    /\ UNCHANGED <<meta, vectors, nextId, vresult>>

\* mutant: a failed vector delete puts the metadata record back
DeleteVectorsRestoring(p) ==
    /\ proc[p].op = "delete" /\ proc[p].pc = "delete_vectors_by_prefix"
    /\ \E out \in delete_vectors_by_prefix(vectors, proc[p].link_info.id,
                                           proc[p].link_info.chunk_count) :
        /\ vectors' = out.store
        /\ IF out.res.tag = "Ok"
           THEN /\ proc' = Finish(p, Ok(proc[p].link_info), "delete_vectors_by_prefix")
                /\ meta' = meta
           ELSE /\ proc' = Finish(p, out.res, "delete_vectors_by_prefix")
                /\ meta' = meta \cup {proc[p].link_info}
    /\ UNCHANGED <<blobs, nextId, vresult>>

DeleteVectors(p) ==
    /\ proc[p].op = "delete" /\ proc[p].pc = "delete_vectors_by_prefix"
    /\ \E out \in delete_vectors_by_prefix(vectors, proc[p].link_info.id,
                                           proc[p].link_info.chunk_count) :
        /\ vectors' = out.store
        /\ IF out.res.tag = "Ok"
           THEN proc' = Finish(p, Ok(proc[p].link_info), "delete_vectors_by_prefix")
           ELSE proc' = Finish(p, out.res, "delete_vectors_by_prefix")
    /\ UNCHANGED <<meta, blobs, nextId, vresult>>

(* ------------------------------ search_links -------------------------- *)

Min(a, b) == IF a < b THEN a ELSE b

\* mutant: the cap is not applied
TakeAll(s, n) == s

\* Iterator::take(n)
Take(s, n) == SubSeq(s, 1, Min(n, Len(s)))

\* vector::query_vectors_with_scores: at most k hits, or a store failure.
query_vectors_with_scores(index, k) ==
    {[tag |-> "Ok", hits |-> Take(index, k)], [tag |-> "Err", hits |-> <<>>]}

\* `doc_best_scores.entry(..).or_insert(0.0)`
BestScoreStart == 0

\* the body of `for (_vector_id, score, metadata) in vector_results`
GroupHit(acc, hit) ==
    LET d == hit.metadata.document_id
        pair == <<hit.score, hit.metadata.chunk_id>>
        current_best == IF d \in DOMAIN acc.doc_best_scores
                        THEN acc.doc_best_scores[d] ELSE BestScoreStart
        best == IF hit.score > current_best THEN hit.score ELSE current_best
    IN  [doc_matches |->
            IF d \in DOMAIN acc.doc_matches
            THEN [acc.doc_matches EXCEPT ![d] = Append(@, pair)]
            ELSE acc.doc_matches @@ (d :> <<pair>>),
         doc_best_scores |->
            IF d \in DOMAIN acc.doc_best_scores
            THEN [acc.doc_best_scores EXCEPT ![d] = best]
            ELSE acc.doc_best_scores @@ (d :> best)]

RECURSIVE GroupLoop(_, _)
GroupLoop(hits, acc) ==
    IF hits = <<>> THEN acc ELSE GroupLoop(Tail(hits), GroupHit(acc, Head(hits)))

GroupHits(hits) == GroupLoop(hits, [doc_matches |-> <<>>, doc_best_scores |-> <<>>])

\* the orders a HashMap may be iterated in: every permutation of its keys
RECURSIVE Perms(_)
Perms(S) ==
    IF S = {} THEN {<<>>}
    ELSE UNION {{<<x>> \o q : q \in Perms(S \ {x})} : x \in S}

\* `doc_best_scores.into_iter().collect()` in the iteration order `order`
Collect(best, order) == [k \in 1..Len(order) |-> <<order[k], best[order[k]]>>]

\* |a, b| b.1.partial_cmp(&a.1): a sorts before b when a's best score is higher
DocBefore(a, b) == a[2] > b[2]

\* mutant: the chunks are compared the other way round
ChunkBeforeAscending(a, b) == a[1] < b[1]

\* |a, b| b.0.partial_cmp(&a.0): a sorts before b when a's score is higher
ChunkBefore(a, b) == a[1] > b[1]

\* the closure handed to sort_by: "docs" (line 110) or "chunks" (line 119)
Before(closure, a, b) ==
    IF closure = "docs" THEN DocBefore(a, b) ELSE ChunkBefore(a, b)

\* slice::sort_by is stable: x goes before the first element it sorts before
StableInsert(sorted, x, closure) ==
    LET later == {k \in 1..Len(sorted) : Before(closure, x, sorted[k])}
        at == IF later = {} THEN Len(sorted) + 1
              ELSE CHOOSE k \in later : \A j \in later : k <= j
    IN  SubSeq(sorted, 1, at - 1) \o <<x>> \o SubSeq(sorted, at, Len(sorted))

sort_by(s, closure) ==
    LET sorted[k \in 0..Len(s)] ==
            IF k = 0 THEN <<>> ELSE StableInsert(sorted[k - 1], s[k], closure)
    IN  sorted[Len(s)]

\* chunks.sort_by(..) and the map to the chunk ids
ChunkList(chunks) ==
    LET sorted == sort_by(chunks, "chunks")
    IN  [k \in 1..Len(sorted) |-> sorted[k][2]]

\* mutant: a missing row fails the search
ResolveArmMissingFails(got) == IF got.tag = "Some" THEN "push" ELSE "fail"

\* mutant: a missing row is pushed as a default row
ResolveArmMissingPushed(got) == IF got.tag = "Err" THEN "fail" ELSE "push"

\* the arms of `match d1::get_link_by_id(&env, doc_id).await?`
ResolveArm(got) ==
    IF got.tag = "Err" THEN "fail"
    ELSE IF got.tag = "Some" THEN "push"
    ELSE "skip"

\* mutant: a query without hits is reported as not-found
EmptyAnswerNotFound == Err("NotFound")

\* `return Ok(vec![])` of `if vector_results.is_empty()`
EmptyAnswer == Ok(<<>>)

\* the vector query, the grouping and the sort of the documents
SearchQuery(p) ==
    /\ proc[p].pc = "idle"
    /\ \E answer \in query_vectors_with_scores(vresult, QueryK) :
        LET started == [Idle EXCEPT !.op = "search", !.pre = Snapshot,
                                    !.log = <<"query_vectors_with_scores">>,
                                    !.lookup = IF answer.tag = "Ok" THEN "Ok"
                                               ELSE "StoreFailure"]
            grouped == GroupHits(answer.hits)
        IN  IF answer.tag = "Err"
            THEN proc' = [proc EXCEPT ![p] =
                    [started EXCEPT !.pc = "done", !.result = Err("StoreFailure")]]
            ELSE IF answer.hits = <<>>
            THEN proc' = [proc EXCEPT ![p] =
                    [started EXCEPT !.pc = "done", !.result = EmptyAnswer]]
            ELSE \E order \in Perms(DOMAIN grouped.doc_best_scores) :
                    proc' = [proc EXCEPT ![p] =
                        [started EXCEPT
                            !.pc = "get_link_by_id",
                            !.doc_matches = grouped.doc_matches,
                            !.doc_best_scores = grouped.doc_best_scores,
                            !.sorted_docs =
                                sort_by(Collect(grouped.doc_best_scores, order),
                                        "docs")]]
    /\ UNCHANGED <<meta, blobs, vectors, nextId, vresult>>

\* one iteration of `for (doc_id, _) in sorted_docs.iter().take(5)`
SearchResolve(p) ==
    /\ proc[p].op = "search" /\ proc[p].pc = "get_link_by_id"
    /\ LET selected == Take(proc[p].sorted_docs, ResultCap)
           i == proc[p].i
           doc_id == selected[i + 1][1]
       IN \E got \in get_link_by_id(meta, doc_id) :
            LET arm == ResolveArm(got)
                return_val ==
                    IF arm = "push"
                    THEN Append(proc[p].return_val,
                                <<got.val, ChunkList(proc[p].doc_matches[doc_id])>>)
                    ELSE proc[p].return_val
            IN  IF arm = "fail"
                THEN proc' = [proc EXCEPT ![p] =
                        [@ EXCEPT !.pc = "done", !.result = Err("StoreFailure"),
                                  !.answers = Append(@, got.tag),
                                  !.log = Append(@, "get_link_by_id")]]
                ELSE proc' = [proc EXCEPT ![p] =
                        [@ EXCEPT !.i = i + 1,
                                  !.return_val = return_val,
                                  !.answers = Append(@, got.tag),
                                  !.log = Append(@, "get_link_by_id"),
                                  !.pc = IF i + 1 = Len(selected) THEN "done"
                                         ELSE "get_link_by_id",
                                  !.result = IF i + 1 = Len(selected)
                                             THEN Ok(return_val) ELSE NoResult]]
    /\ UNCHANGED <<meta, blobs, vectors, nextId, vresult>>

(* ------------------------------ the caller ---------------------------- *)

\* the handler's future has resolved and the caller has taken its result
Return(p) ==
    /\ proc[p].pc = "done"
    /\ proc' = [proc EXCEPT ![p] = Idle]
    /\ UNCHANGED <<meta, blobs, vectors, nextId, vresult>>

AllIdle == \A q \in Procs : proc[q].pc = "idle"

Init ==
    /\ meta = {}
    /\ blobs = {}
    /\ vectors = {}
    /\ nextId = 1
    /\ vresult = <<>>
    /\ proc = [p \in Procs |-> Idle]

\* requests one after the other: a call starts when no other is in flight
Next ==
    \E p \in Procs :
        \/ AllIdle /\ \E url \in Urls : InsertFind(p, url)
        \/ InsertFetch(p)
        \/ InsertSummarize(p)
        \/ InsertEmbed(p)
        \/ InsertVector(p)
        \/ InsertSaveBucket(p)
        \/ InsertSaveDb(p)
        \/ AllIdle /\ \E url \in Urls : DeleteRecord(p, url)
        \/ DeleteBucket(p)
        \/ DeleteVectors(p)
        \/ Return(p)

Spec == Init /\ [][Next]_vars

(* ----------------------- concurrent requests -------------------------- *)

\* the request is cancelled (timeout, client disconnect): the flow stops at
\* the await it is suspended at and no cleanup runs
Cancel(p) ==
    /\ proc[p].pc \notin {"idle", "done"}
    /\ proc' = [proc EXCEPT ![p] = Idle]
    /\ UNCHANGED <<meta, blobs, vectors, nextId, vresult>>

\* of the stores at the call, a concurrent flow remembers the rows of its url
UrlSnapshot(url) ==
    [meta |-> {r \in meta : r.url = url}, blobs |-> {}, vectors |-> {}]

\* the url the concurrent requests contend for
ConcUrls == {"https://a"}

\* requests in any interleaving of their awaits
NextConc ==
    \E p \in Procs :
        \/ \E url \in ConcUrls : InsertFindFrom(p, url, UrlSnapshot(url))
        \/ InsertFetch(p)
        \/ InsertSummarize(p)
        \/ InsertEmbed(p)
        \/ InsertVector(p)
        \/ InsertSaveBucket(p)
        \/ InsertSaveDb(p)
        \/ \E url \in ConcUrls : DeleteRecordFrom(p, url, UrlSnapshot(url))
        \/ DeleteBucket(p)
        \/ DeleteVectors(p)
        \/ Cancel(p)
        \/ Return(p)

SpecConc == Init /\ [][NextConc]_vars

(* ------------------- search over drawn query results ------------------ *)

WideDocs == ResultCap + 1     \* one distinct document more than the cap

Hit(d, c, s) ==
    [vector_id |-> <<d, c>>, score |-> s,
     metadata |-> [document_id |-> d, chunk_id |-> c]]

\* up to MaxHits hits of distinct vectors, in any order, with any scores
NarrowHits ==
    LET universe == {Hit(v[1], v[2], s) : v \in NarrowVectors, s \in Scores}
    IN  {h \in UNION {[1..n -> universe] : n \in 0..MaxHits} :
            \A j, k \in 1..Len(h) : j # k => h[j].vector_id # h[k].vector_id}

\* one hit for each of WideDocs documents, highest score first
WideHits ==
    {[k \in 1..WideDocs |-> Hit(k, 0, sc[k])] :
        sc \in {f \in [1..WideDocs -> Scores] :
                    \A k \in 1..(WideDocs - 1) : f[k] >= f[k + 1]}}

\* the row a completed ingestion of document d has left
StoredRow(d) ==
    [id |-> d, url |-> <<"https://", d>>, created_at |-> d,
     bucket_path |-> get_bucket_path("text/html", d),
     content_type |-> "text/html", size |-> 2, title |-> <<"title", d>>,
     summary |-> <<"summary", d>>, chunk_count |-> 2]

SearchProcs == {1}

InitSearch ==
    /\ vresult \in NarrowHits \cup WideHits
    /\ \E missing \in SUBSET (1..MaxMissing) :
        meta = {StoredRow(d) : d \in (1..WideDocs) \ missing}
    /\ blobs = {}
    /\ vectors = {}
    /\ nextId = WideDocs + 1
    /\ proc = [p \in Procs |-> Idle]

NextSearch ==
    \E p \in SearchProcs :
        \/ SearchQuery(p)
        \/ SearchResolve(p)
        \/ Return(p)

SpecSearch == InitSearch /\ [][NextSearch]_vars

(* ---------------------- claims about insert and delete ---------------- *)

KnownUrl(p) == \E r \in proc[p].pre.meta : r.url = proc[p].url

InsertReturned(p) == proc[p].op = "insert" /\ proc[p].pc = "done"

DeleteReturned(p) == proc[p].op = "delete" /\ proc[p].pc = "done"

C2_CountInvariant ==
    \A p \in Procs :
        (InsertReturned(p) /\ proc[p].result.tag = "Ok" /\ proc[p].lookup # "found")
            => LET r == proc[p].result.val
                   n == Len(proc[p].chunks)
                   own == {v \in vectors : v.document_id = r.id}
               IN  /\ r.chunk_count = n
                   /\ r \in meta
                   /\ {v.id : v \in own} = {<<r.id, k>> : k \in 0..(n - 1)}
                   /\ Cardinality(own) = n
                   /\ \A v \in own : v.id = <<r.id, v.chunk_id>>

C2_Witness ==
    \E p \in Procs :
        /\ InsertReturned(p)
        /\ proc[p].result.tag = "Ok"
        /\ proc[p].lookup = "NotFound"
        /\ proc[p].result.val.chunk_count > 1

\* C7: after a delete_link that returns Ok, the returned row is the one the
\* store held for the url, and its row, its blob and its chunk_count vectors
\* are gone.
C7_DeletionComplete ==
    \A p \in Procs :
        (DeleteReturned(p) /\ proc[p].result.tag = "Ok")
            => LET r == proc[p].result.val
               IN  /\ r \in proc[p].pre.meta
                   /\ r.url = proc[p].url
                   /\ ~ \E x \in meta : x.id = r.id
                   /\ ~ \E b \in blobs : b.path = r.bucket_path
                   /\ ~ \E v \in vectors :
                          v.id \in {<<r.id, k>> : k \in 0..(r.chunk_count - 1)}

C7_Witness ==
    \E p \in Procs :
        /\ DeleteReturned(p)
        /\ proc[p].result.tag = "Ok"
        /\ proc[p].result.val.chunk_count > 1
        /\ \E b \in proc[p].pre.blobs : b.path = proc[p].result.val.bucket_path
        /\ \A k \in 0..(proc[p].result.val.chunk_count - 1) :
              \E v \in proc[p].pre.vectors : v.id = <<proc[p].result.val.id, k>>

\* C8: a delete_link of a url the metadata store holds no row for fails at its
\* first step (with NotFound when the store answers), issues no blob delete
\* and no vector delete, and leaves the three stores as they were.
C8_DeleteUnknownUrl ==
    \A p \in Procs :
        (proc[p].op = "delete" /\ ~ KnownUrl(p))
            => /\ proc[p].pc = "done"
               /\ proc[p].result.tag = "Err"
               /\ proc[p].lookup \in {"NotFound", "StoreFailure"}
               /\ proc[p].result.err = proc[p].lookup
               /\ proc[p].log = <<"delete_link_by_url">>
               /\ Snapshot = proc[p].pre

C8_Witness ==
    \E p \in Procs :
        /\ DeleteReturned(p)
        /\ ~ KnownUrl(p)
        /\ proc[p].result.err = "NotFound"
        /\ nextId > 1

\* C9: an insert_link whose find-by-url lookup fails with a store failure
\* returns that failure, fetches nothing and writes to no store.
C9_LookupFailureAborts ==
    \A p \in Procs :
        (proc[p].op = "insert" /\ proc[p].lookup = "StoreFailure")
            => /\ \A k \in 1..Len(proc[p].log) : proc[p].log[k] = "find_link_by_url"
               /\ Snapshot = proc[p].pre
               /\ proc[p].pc = "done" => proc[p].result = Err("StoreFailure")

(* --------------------------- claims about search ---------------------- *)

SearchReturned(p) == proc[p].op = "search" /\ proc[p].pc = "done"

SearchOk(p) == SearchReturned(p) /\ proc[p].result.tag = "Ok"

\* the hits of the query result that belong to document d
HitsOfDoc(d) == SelectSeq(vresult, LAMBDA h : h.metadata.document_id = d)

HitDocs == {vresult[k].metadata.document_id : k \in 1..Len(vresult)}

\* the maximum score among the hits of document d
MaxHitScore(d) ==
    LET scores == {HitsOfDoc(d)[k].score : k \in 1..Len(HitsOfDoc(d))}
    IN  CHOOSE m \in scores : \A t \in scores : m >= t

\* the score of the hit of chunk c of document d
HitScore(d, c) ==
    LET h == CHOOSE x \in {vresult[k] : k \in 1..Len(vresult)} :
                x.metadata.document_id = d /\ x.metadata.chunk_id = c
    IN  h.score

HasRow(d) == \E r \in meta : r.id = d

\* the ids of the first five documents of the sorted list
SelectedIds(p) ==
    LET docs == proc[p].sorted_docs
    IN  [k \in 1..(IF Len(docs) < 5 THEN Len(docs) ELSE 5) |-> docs[k][1]]

ResultIds(p) == [k \in 1..Len(proc[p].result.val) |-> proc[p].result.val[k][1].id]

\* C3: the documents of a search result are in non-increasing order of the
\* maximum score of their hits.
C3_OuterOrder ==
    \A p \in Procs :
        SearchOk(p)
            => \A j, k \in 1..Len(proc[p].result.val) :
                  j < k => MaxHitScore(ResultIds(p)[j]) >= MaxHitScore(ResultIds(p)[k])

C5_ResultCap ==
    \A p \in Procs :
        SearchOk(p)
            => /\ Len(proc[p].result.val) <= 5
               /\ \A j, k \in 1..Len(proc[p].result.val) :
                     j # k => ResultIds(p)[j] # ResultIds(p)[k]

C5_Witness ==
    \E p \in Procs :
        /\ SearchOk(p)
        /\ Cardinality(HitDocs) > 5
        /\ Len(proc[p].result.val) = 5

\* C6: a search whose vector query succeeded and whose metadata lookups were
\* all answered (row or absent) returns Ok with exactly the selected
\* documents that have a row, each with its row, in their ranked order.
C6_MissingMetadataTolerated ==
    \A p \in Procs :
        (/\ SearchReturned(p)
         /\ proc[p].lookup = "Ok"
         /\ \A k \in 1..Len(proc[p].answers) : proc[p].answers[k] # "Err")
            => /\ proc[p].result.tag = "Ok"
               /\ ResultIds(p) = SelectSeq(SelectedIds(p), HasRow)
               /\ \A k \in 1..Len(proc[p].result.val) : proc[p].result.val[k][1] \in meta

C6_Witness ==
    \E p \in Procs :
        /\ SearchOk(p)
        /\ Len(SelectedIds(p)) > 2
        /\ ~ HasRow(SelectedIds(p)[1])
        /\ HasRow(SelectedIds(p)[2])
        /\ proc[p].result.val # <<>>
        /\ ResultIds(p)[1] = SelectedIds(p)[2]

\* C10 as stated: a search returns an error only when the vector query failed.
C10_OnlyVectorQueryFails ==
    \A p \in Procs :
        (SearchReturned(p) /\ proc[p].result.tag = "Err")
            => proc[p].lookup = "StoreFailure"

\* C10 as amended: a search returns an error only when the vector query
\* failed or a get-by-id lookup itself failed with a store error; a lookup
\* that answers absent never makes the search return an error.
C10_SearchFailureScope ==
    \A p \in Procs :
        (SearchReturned(p) /\ proc[p].result.tag = "Err")
            => \/ proc[p].lookup = "StoreFailure" /\ proc[p].answers = <<>>
               \/ /\ proc[p].lookup = "Ok"
                  /\ proc[p].answers # <<>>
                  /\ proc[p].answers[Len(proc[p].answers)] = "Err"

C10_Witness ==
    \E p \in Procs :
        /\ SearchReturned(p)
        /\ proc[p].result.tag = "Err"
        /\ proc[p].lookup = "Ok"
        /\ Len(proc[p].answers) > 2
        /\ proc[p].answers[1] = "None"
        /\ proc[p].answers[2] = "Some"

(* --------------------------- C11: dedup race -------------------------- *)

VectorIdsOf(d) == {x.id : x \in {v \in vectors : v.document_id = d}}

\* C11, the sequential half: an insert_link that starts when a record of its
\* url is already stored (the calls run one after the other) and returns
\* success returns a record that was stored at its start; it writes no second
\* record for the url.
C11_SequentialNoDuplicate ==
    \A p \in Procs :
        (InsertReturned(p) /\ KnownUrl(p) /\ proc[p].result.tag = "Ok")
            => proc[p].result.val \in proc[p].pre.meta

\* C11, the race: both calls started with no record of the url, both lookups
\* answered not-found, both completed; two records of one url are stored with
\* different ids, different blob paths and disjoint vector ids.
C11_RaceWitness ==
    /\ \A p \in Procs :
        /\ InsertReturned(p)
        /\ ~KnownUrl(p)
        /\ proc[p].lookup = "NotFound"
        /\ proc[p].result.tag = "Ok"
        /\ proc[p].result.val \in meta
    /\ \E r1, r2 \in meta :
        /\ r1.url = r2.url
        /\ r1.id # r2.id
        /\ r1.bucket_path # r2.bucket_path
        /\ {b \in blobs : b.path = r1.bucket_path} # {}
        /\ {b \in blobs : b.path = r2.bucket_path} # {}
        /\ VectorIdsOf(r1.id) # {}
        /\ VectorIdsOf(r2.id) # {}
        /\ VectorIdsOf(r1.id) \cap VectorIdsOf(r2.id) = {}

(* ----------------------- C12: ingestion write order ------------------- *)

IsPrefix(s, t) == Len(s) <= Len(t) /\ SubSeq(t, 1, Len(s)) = s

\* the external calls of an ingestion of n chunks, in the claimed order
InsertCallOrder(n) ==
    <<"find_link_by_url", "fetch_content", "chunk_and_summary_link">>
        \o [k \in 1..n |-> "generate_embeddings"]
        \o [k \in 1..n |-> "insert_vector"]
        \o <<"save_to_bucket", "save_link_to_db">>

\* the call passed the dedup check and ingests under a new id
Ingesting(p) == proc[p].op = "insert" /\ proc[p].lookup # "found"

BlobAt(path) == \E b \in blobs : b.path = path

\* C12: in every execution of insert_link that ingests, the calls made so far
\* are a prefix of: lookup, fetch, summarize, n embeds, n vector inserts, blob
\* put, metadata save; the vectors stored under the new id are those of
\* indexes 0..m-1 for some m and none is stored before all n embeddings
\* exist; the blob is stored only when all n vectors are; the record is
\* stored only when the blob is, and the save is then the last call made.
C12_WriteOrder ==
    \A p \in Procs :
        Ingesting(p) =>
            LET n == Len(proc[p].chunks)
                d == proc[p].link_id
                log == proc[p].log
            IN  /\ \E m \in 0..MaxChunks : IsPrefix(log, InsertCallOrder(m))
                /\ Len(log) > 3 => IsPrefix(log, InsertCallOrder(n))
                /\ \E m \in 0..n : VectorIdsOf(d) = {<<d, k>> : k \in 0..(m - 1)}
                /\ VectorIdsOf(d) # {} => Len(proc[p].embeddings) = n
                /\ BlobAt(proc[p].bucket_path)
                      => /\ VectorIdsOf(d) = {<<d, k>> : k \in 0..(n - 1)}
                         /\ Len(log) >= 3 + n + n
                /\ (\E r \in meta : r.id = d)
                      => /\ BlobAt(proc[p].bucket_path)
                         /\ proc[p].pc = "done"
                         /\ log[Len(log)] = "save_link_to_db"

C12_Witness ==
    \E p \in Procs :
        /\ Ingesting(p)
        /\ proc[p].pc = "done"
        /\ proc[p].result.tag = "Ok"
        /\ Len(proc[p].chunks) = MaxChunks
        /\ proc[p].row \in meta
        /\ proc[p].log = InsertCallOrder(MaxChunks)

(* ------------------ C13: ingestion abort without rollback ------------- *)

\* the vector entries the ingestion of p writes for chunk indexes 0..(m - 1)
OwnVectors(p, m) ==
    {[id |-> <<proc[p].link_id, k>>, document_id |-> proc[p].link_id,
      chunk_id |-> k, embedding |-> proc[p].embeddings[k + 1]] : k \in 0..(m - 1)}

OwnBlob(p) == [path |-> proc[p].bucket_path, content |-> proc[p].content]

InsertFailedAt(p, step) ==
    /\ Ingesting(p)
    /\ proc[p].pc = "done"
    /\ proc[p].result.tag = "Err"
    /\ proc[p].log[Len(proc[p].log)] = step

\* C13: an insert_link returns success only after all its steps; when it
\* returns an error, the failed call is the last call made and the stores are
\* the stores of the call's start plus what the earlier steps wrote: nothing
\* after a failed fetch, summarize or embed; exactly vectors 0..i-1 of the new
\* id after a failed vector insert i; all n vectors after a failed blob put;
\* all n vectors and the blob after a failed metadata save; never the record.
C13_AbortWithoutRollback ==
    \A p \in Procs :
        LET n == Len(proc[p].chunks)
            pre == proc[p].pre
            i == Len(proc[p].log) - (3 + n) - 1
        IN  /\ (Ingesting(p) /\ proc[p].pc = "done" /\ proc[p].result.tag = "Ok")
                  => proc[p].log = InsertCallOrder(n)
            /\ (Ingesting(p) /\ proc[p].pc = "done" /\ proc[p].result.tag = "Err")
                  => /\ meta = pre.meta
                     /\ \A r \in meta : r.id # proc[p].link_id
                     /\ \E m \in 0..MaxChunks :
                            IsPrefix(proc[p].log, InsertCallOrder(m))
            /\ \A step \in {"fetch_content", "chunk_and_summary_link",
                            "generate_embeddings"} :
                  InsertFailedAt(p, step) => Snapshot = pre
            /\ InsertFailedAt(p, "insert_vector")
                  => /\ i \in 0..(n - 1)
                     /\ vectors = pre.vectors \cup OwnVectors(p, i)
                     /\ VectorIdsOf(proc[p].link_id) = {<<proc[p].link_id, k>> : k \in 0..(i - 1)}
                     /\ blobs = pre.blobs /\ ~BlobAt(proc[p].bucket_path)
            /\ InsertFailedAt(p, "save_to_bucket")
                  => /\ vectors = pre.vectors \cup OwnVectors(p, n)
                     /\ Cardinality(VectorIdsOf(proc[p].link_id)) = n
                     /\ blobs = pre.blobs /\ ~BlobAt(proc[p].bucket_path)
            /\ InsertFailedAt(p, "save_link_to_db")
                  => /\ vectors = pre.vectors \cup OwnVectors(p, n)
                     /\ Cardinality(VectorIdsOf(proc[p].link_id)) = n
                     /\ blobs = pre.blobs \cup {OwnBlob(p)}
                     /\ OwnBlob(p) \notin pre.blobs

\* a metadata save failed after two vectors and the blob were written
C13_Witness ==
    \E p \in Procs :
        /\ InsertFailedAt(p, "save_link_to_db")
        /\ Len(proc[p].chunks) = MaxChunks
        /\ OwnBlob(p) \in blobs
        /\ OwnVectors(p, MaxChunks) \subseteq vectors

(* -------------------- C14: deletion order and abort ------------------- *)

DeleteCallOrder ==
    <<"delete_link_by_url", "delete_from_bucket", "delete_vectors_by_prefix">>

\* the delete-by-url of the call removed a record
Deleting(p) == proc[p].op = "delete" /\ proc[p].lookup = "found"

DeleteFailedAt(p, step) ==
    /\ Deleting(p)
    /\ proc[p].pc = "done"
    /\ proc[p].result.tag = "Err"
    /\ proc[p].log[Len(proc[p].log)] = step

AllVectorsOf(row) ==
    \A k \in 0..(row.chunk_count - 1) : <<row.id, k>> \in VectorIdsOf(row.id)

\* C14: delete_link calls delete-by-url, then the blob delete, then the vector
\* delete; from the first step on the record is out of the metadata store and
\* is never put back; until the blob delete succeeded the blobs are those of
\* the call's start, until the vector delete succeeded the vectors are those
\* of the call's start; a failed blob delete returns an error with the blob
\* and all vectors still stored, a failed vector delete returns an error
\* with the blob gone and all vectors still stored.
C14_DeleteOrderAndAbort ==
    \A p \in Procs :
        Deleting(p) =>
            LET d == proc[p].link_info
                pre == proc[p].pre
                blobGone == {x \in pre.blobs : x.path # d.bucket_path}
            IN  /\ IsPrefix(proc[p].log, DeleteCallOrder)
                /\ d \in pre.meta
                /\ meta = pre.meta \ {d}
                /\ proc[p].pc = "delete_from_bucket"
                      => blobs = pre.blobs /\ vectors = pre.vectors
                /\ proc[p].pc = "delete_vectors_by_prefix"
                      => blobs = blobGone /\ vectors = pre.vectors
                /\ DeleteFailedAt(p, "delete_from_bucket")
                      => /\ blobs = pre.blobs /\ vectors = pre.vectors
                         /\ BlobAt(d.bucket_path) /\ AllVectorsOf(d)
                /\ DeleteFailedAt(p, "delete_vectors_by_prefix")
                      => /\ blobs = blobGone /\ vectors = pre.vectors
                         /\ ~BlobAt(d.bucket_path) /\ AllVectorsOf(d)
                /\ (proc[p].pc = "done" /\ proc[p].result.tag = "Ok")
                      => proc[p].log = DeleteCallOrder

\* a vector delete failed after the record and the blob were removed
C14_Witness ==
    \E p \in Procs :
        /\ DeleteFailedAt(p, "delete_vectors_by_prefix")
        /\ proc[p].link_info.chunk_count = MaxChunks
        /\ BlobAt(proc[p].link_info.bucket_path) = FALSE
        /\ proc[p].link_info \notin meta
        /\ AllVectorsOf(proc[p].link_info)

(* --------------------------- C15: best score -------------------------- *)

\* C15: for every document id of the query result, the best score the search
\* tracks for it (and sorts by) is the maximum of the scores of its hits.
C15_BestScoreIsMax ==
    \A p \in Procs :
        (proc[p].op = "search" /\ proc[p].lookup = "Ok")
            => /\ DOMAIN proc[p].doc_best_scores = HitDocs
               /\ \A d \in HitDocs : proc[p].doc_best_scores[d] = MaxHitScore(d)

\* what the code tracks instead: the maximum of 0.0 and the scores of the hits
C15_TrackedIsMaxWithZero ==
    \A p \in Procs :
        (proc[p].op = "search" /\ proc[p].lookup = "Ok")
            => /\ DOMAIN proc[p].doc_best_scores = HitDocs
               /\ \A d \in HitDocs :
                    proc[p].doc_best_scores[d] =
                        (IF MaxHitScore(d) > BestScoreStart THEN MaxHitScore(d)
                         ELSE BestScoreStart)

(* --------------------- C16: cap before resolution --------------------- *)

\* the documents of the query result whose best score is above that of d
BetterDocs(d) == {e \in HitDocs : MaxHitScore(e) > MaxHitScore(d)}

\* C16: every document of a search result is one of the selected five and is
\* ranked among the first five by best score (fewer than five documents of
\* the query result have a higher best score), also when selected documents
\* have no record; the result has one entry for each selected document that
\* has a record.
C16_CapBeforeResolution ==
    \A p \in Procs :
        SearchOk(p) =>
            LET sel == SelectedIds(p)
                res == ResultIds(p)
            IN  /\ \A k \in 1..Len(res) :
                    /\ \E j \in 1..Len(sel) : sel[j] = res[k]
                    /\ Cardinality(BetterDocs(res[k])) < ResultCap
                /\ Len(res) = Cardinality({j \in 1..Len(sel) : HasRow(sel[j])})

(* --------------------------- C17: empty search ------------------------ *)

\* C17: a search whose vector query answers with zero hits has returned
\* success with an empty list and has made no call but the vector query; and
\* at every step of every search the metadata, blob and vector stores are
\* what they were when the search was called.
C17_EmptySearch ==
    \A p \in Procs :
        /\ (proc[p].op = "search" /\ proc[p].lookup = "Ok" /\ vresult = <<>>)
              => /\ proc[p].pc = "done"
                 /\ proc[p].result = Ok(<<>>)
                 /\ proc[p].log = <<"query_vectors_with_scores">>
                 /\ proc[p].answers = <<>>
        /\ proc[p].op = "search" => Snapshot = proc[p].pre

C17_Witness ==
    \E p \in Procs :
        /\ SearchOk(p)
        /\ vresult = <<>>
        /\ proc[p].result.val = <<>>
        /\ meta # {}

(* ---------------------- C18: vector id determinism -------------------- *)

\* the embedding the embedder computes from a chunk text
EmbeddingOf(chunk_text) == <<"embedding", chunk_text>>

\* C18: when an ingestion of document d with chunks c_0..c_{n-1} has returned
\* success, for every i in 0..n-1 the vector store holds exactly one entry of
\* id "{d}-{i}", and it carries document_id d, chunk_id i and the embedding
\* computed from chunk text c_i.
C18_VectorIdDeterminism ==
    \A p \in Procs :
        (Ingesting(p) /\ proc[p].pc = "done" /\ proc[p].result.tag = "Ok")
            => \A i \in 0..(Len(proc[p].chunks) - 1) :
                 {x \in vectors : x.id = <<proc[p].link_id, i>>}
                    = {[id |-> <<proc[p].link_id, i>>,
                        document_id |-> proc[p].link_id,
                        chunk_id |-> i,
                        embedding |-> EmbeddingOf(proc[p].chunks[i + 1])]}

C18_Witness ==
    \E p \in Procs :
        /\ Ingesting(p) /\ proc[p].pc = "done" /\ proc[p].result.tag = "Ok"
        /\ Len(proc[p].chunks) = MaxChunks
        /\ \E x, y \in vectors :
            /\ x.document_id = proc[p].link_id /\ x.chunk_id = 0
            /\ y.document_id = proc[p].link_id /\ y.chunk_id = MaxChunks - 1
            /\ x.embedding # y.embedding

(* ------------------ C19: metadata record as commit point -------------- *)

\* C19: in every state reached by insert_link and delete_link calls in any
\* interleaving, with any call failing and any flow cancelled at any await,
\* every record of the metadata store has its blob stored at bucket_path and
\* all vectors "{id}-0" .. "{id}-{chunk_count-1}" stored.
C19_RecordIsCommitPoint ==
    \A r \in meta :
        /\ BlobAt(r.bucket_path)
        /\ AllVectorsOf(r)
        /\ \A k \in 0..(r.chunk_count - 1) :
              \E x \in vectors :
                 x.id = <<r.id, k>> /\ x.document_id = r.id /\ x.chunk_id = k

\* a record with all its vectors is stored next to an orphan blob and an
\* orphan vector of a document without a record, while no call is in flight
C19_Witness ==
    /\ \E r \in meta : r.chunk_count = MaxChunks
    /\ \E b \in blobs : \A r \in meta : r.bucket_path # b.path
    /\ \E x \in vectors : \A r \in meta : r.id # x.document_id
    /\ \A p \in Procs : proc[p].pc = "idle"

(* -------------------------- C20: delete isolation --------------------- *)

\* the step is a step of a delete_link call of p that has removed a record
DeleteStep(p) ==
    /\ proc'[p] # proc[p]
    /\ proc'[p].op = "delete"
    /\ proc'[p].lookup = "found"

====
